---------------------------- MODULE Spec2Model ----------------------------
(***************************************************************************)
(* State-machine model of cozodb's runtime/instance.rs: the Db handle, its *)
(* shared atomic counters, session creation with bootstrap from storage,   *)
(* and the opening of read and write transaction contexts (SessionTx).     *)
(*                                                                         *)
(* The storage engine (cozorocks) and SessionTx's storage helpers          *)
(* (load_last_tx_id, load_last_attr_id, load_last_entity_id, commit) are   *)
(* not part of instance.rs; they are modelled from the specification.      *)
(*                                                                         *)
(* The counters are AtomicU64/AtomicUsize. The model bounds the number of  *)
(* allocations far below 2^64, so wrap-around is never reached.            *)
(***************************************************************************)
EXTENDS Integers, Sequences, FiniteSets, TLC

\* ------------------------------------------------------------------ bounds
NThreads == 2
MaxSessions == 2
MaxAlloc == 1
NWriters == 4

Threads == 1..NThreads
Writers == 1..NWriters

\* Option::None for Option<TxId>.
None == -1

\* Persisted high-water marks <<last_attr_id, last_ent_id, last_tx_id>> of
\* the stores a Database is first built over.
InitStores == {<<0, 0, 0>>, <<41, 7, 100>>}

VARIABLES
    store,            \* durable state: id ledger rows and the tx log rows
    last_attr_id,     \* Db.last_attr_id  (Arc<AtomicU64>)
    last_ent_id,      \* Db.last_ent_id   (Arc<AtomicU64>)
    last_tx_id,       \* Db.last_tx_id    (Arc<AtomicU64>)
    n_sessions,       \* Db.n_sessions    (Arc<AtomicUsize>)
    boot,             \* per thread: position inside new_session on the root
    ctxs,             \* SessionTx values currently alive
    ordinals,         \* session_id of every Session returned, in order
    last_issued,      \* w_tx_id the latest transact_write of this Database returned
    prev_issued,      \* highest w_tx_id returned before that one
    boots,            \* number of load_last_ids runs that returned Ok
    failed,           \* observer: a new_session call returned Err
    retry,            \* observer: per thread, its call began after a failed one
    recovered,        \* observer: a call begun after a failed one returned Ok
    call,             \* observer: per thread, what its call in progress did
    at_build,         \* the store as it was when this Database was built
    allocated_before, \* highest tx id allocated before the last restart
    origin,           \* last tx id of the store the first Database opened
    wret,             \* per writer thread: the w_tx_id its call returned
    alloc,            \* observer: per id kind, the ids allocated so far
    found             \* observer: how the latest timestamp lookup ended

vars == <<store, last_attr_id, last_ent_id, last_tx_id, n_sessions,
          boot, ctxs, ordinals, last_issued, prev_issued, boots,
          failed, retry, recovered, call, at_build, allocated_before,
          origin, wret, alloc, found>>

\* ----------------------------------------------------------------- helpers
Max(S) == CHOOSE x \in S : \A y \in S : y <= x

Range(s) == {s[i] : i \in 1..Len(s)}

\* ------------------------------------------------- storage (spec-modelled)
\* The store holding the given high-water marks.
StoreOf(a, e, t) ==
    [last_attr_id |-> a, last_ent_id |-> e,
     tx_log |-> IF t = 0 THEN {} ELSE {t}]

\* The last committed tx id a store holds.
LastTxOf(st) == IF st.tx_log = {} THEN 0 ELSE Max(st.tx_log)

\* db.transact().set_snapshot(flag).start(): a storage transaction; with a
\* snapshot it reads the store as of its start, without one the live store.
DbTransactStart(set_snapshot) == [snapshot |-> set_snapshot, view |-> store]

TxRead(tx) == IF tx.snapshot THEN tx.view ELSE store

\* SessionTx::load_last_tx_id: the highest committed tx id in the tx log.
load_last_tx_id(tx) == LastTxOf(TxRead(tx))

load_last_attr_id(tx) == TxRead(tx).last_attr_id

load_last_entity_id(tx) == TxRead(tx).last_ent_id

\* ------------------------------------------------------------ instance.rs
\* Db::build: all counters Default::default().
DefaultCounter == 0

\* The snapshot transaction both transact and transact_write start
\* (StartSnapshotTx_live: the faulty variant without set_snapshot).
StartSnapshotTx_live == DbTransactStart(FALSE)
StartSnapshotTx == DbTransactStart(TRUE)

\* Db::transact, the context built before the optional load (lines 73-81).
TransactInit(at) ==
    [tx |-> StartSnapshotTx,
     r_tx_id |-> IF at = None THEN 0 ELSE at,
     w_tx_id |-> None,
     op |-> "transact",
     at |-> at,
     loaded |-> FALSE,
     attr |-> None,
     ent |-> None]

\* Db::transact on success (lines 73-86). Beside the fields of SessionTx the
\* record keeps the call that made it (op, at), whether the call read the
\* last tx id from storage (loaded), and the highest attribute id and entity
\* id allocated through the context (attr, ent). Faulty variants: transact_no_load
\* skips the load, transact_counter takes the in-memory counter instead,
\* transact_always_load loads even when read_at is given.
transact_no_load(at) == TransactInit(at)
transact_counter(at) ==
    LET ret == TransactInit(at)
    IN IF at = None
       THEN [ret EXCEPT !.r_tx_id = last_tx_id, !.loaded = TRUE]
       ELSE ret
transact_always_load(at) ==
    LET ret == TransactInit(at)
    IN [ret EXCEPT !.r_tx_id = load_last_tx_id(ret.tx), !.loaded = TRUE]
transact(at) ==
    LET ret == TransactInit(at)
    IN IF at = None
       THEN [ret EXCEPT !.r_tx_id = load_last_tx_id(ret.tx), !.loaded = TRUE]
       ELSE ret

\* Db::transact returns Err exactly when it reads storage (line 83) and the
\* read fails; ok is whether a storage read made by the call succeeds.
TransactOk(at, ok) == at # None \/ ok

\* Db::transact_write: cur_tx_id from the value fetch_add returned
\* (CurTxId_old: the faulty variant that forgets the + 1).
CurTxId_old(fetched) == fetched
CurTxId(fetched) == fetched + 1

\* The context transact_write returns (lines 92-99)
\* (transact_write_ctx_stale: the faulty variant whose r_tx_id is the value
\* the counter held before the increment).
transact_write_ctx_stale(cur_tx_id) ==
    [tx |-> StartSnapshotTx,
     r_tx_id |-> cur_tx_id - 1,
     w_tx_id |-> cur_tx_id,
     op |-> "transact_write",
     at |-> None,
     loaded |-> FALSE,
     attr |-> None,
     ent |-> None]
transact_write_ctx(cur_tx_id) ==
    [tx |-> StartSnapshotTx,
     r_tx_id |-> cur_tx_id,
     w_tx_id |-> cur_tx_id,
     op |-> "transact_write",
     at |-> None,
     loaded |-> FALSE,
     attr |-> None,
     ent |-> None]

\* Db::new_session: session_id from the value fetch_add returned
\* (SessionId_old: the faulty variant that forgets the + 1).
SessionId_old(old_count) == old_count
SessionId(old_count) == old_count + 1

\* Db::load_last_ids: the value stored into last_tx_id (line 65)
\* (StoredTxId_attr: the faulty variant that stores the attribute id).
StoredTxId_attr(tx) == load_last_attr_id(tx.tx)
StoredTxId(tx) == tx.r_tx_id

NoTx == [tx |-> [snapshot |-> TRUE, view |-> StoreOf(0, 0, 0)],
         r_tx_id |-> 0, w_tx_id |-> None, op |-> "transact", at |-> None,
         loaded |-> FALSE, attr |-> None, ent |-> None]

Idle == [pc |-> "idle", tx |-> NoTx]

\* Sessions handed out so far (the root has ordinal 0 and is not one of them).
Sessions == Range(ordinals)

\* What the observer holds before an id of either kind is allocated: per
\* kind the id the latest allocation returned (last) and the highest id
\* returned before that one (prev).
NoAlloc == [k \in {"attr", "ent"} |-> [last |-> None, prev |-> None]]

\* What the observer holds for a thread outside new_session. Inside, again
\* tells whether a load_last_ids run had returned Ok when the call began,
\* and dirty whether the call has changed the value of a counter.
NoCall == [again |-> FALSE, dirty |-> FALSE]

InFlight == {t \in Threads : boot[t].pc # "idle"}

\* ---------------------------------------------------------------- Init
Init ==
    /\ \E s \in InitStores : store = StoreOf(s[1], s[2], s[3])
    /\ last_attr_id = DefaultCounter
    /\ last_ent_id = DefaultCounter
    /\ last_tx_id = DefaultCounter
    /\ n_sessions = DefaultCounter
    /\ boot = [t \in Threads |-> Idle]
    /\ ctxs = {}
    /\ ordinals = <<>>
    /\ last_issued = None
    /\ prev_issued = None
    /\ boots = 0
    /\ failed = FALSE
    /\ retry = [t \in Threads |-> FALSE]
    /\ recovered = FALSE
    /\ call = [t \in Threads |-> NoCall]
    /\ at_build = store
    /\ allocated_before = 0
    /\ origin = LastTxOf(store)
    /\ wret = [w \in Writers |-> None]
    /\ alloc = NoAlloc
    /\ found = "none"

\* ------------------------------------------------- new_session on the root
\* Lines 47-48, 64: session_id == 0, load_last_ids begins with transact(None).
\* A failed read (ok = FALSE) returns Err from new_session.
NewSessionBegin(t, ok) ==
    /\ boot[t].pc = "idle"
    /\ n_sessions + Cardinality(InFlight) < MaxSessions
    /\ IF TransactOk(None, ok)
       THEN boot' = [boot EXCEPT ![t] = [pc |-> "store_tx", tx |-> transact(None)]]
       ELSE UNCHANGED boot
    /\ UNCHANGED <<store, last_attr_id, last_ent_id, last_tx_id, n_sessions,
                   ctxs, ordinals, last_issued, prev_issued, boots,
                   at_build, allocated_before, origin, wret>>

\* Line 65: self.last_tx_id.store(tx.r_tx_id.0).
BootStoreTx(t) ==
    /\ boot[t].pc = "store_tx"
    /\ last_tx_id' = StoredTxId(boot[t].tx)
    /\ boot' = [boot EXCEPT ![t].pc = "attr"]
    /\ UNCHANGED <<store, last_attr_id, last_ent_id, n_sessions, ctxs,
                   ordinals, last_issued, prev_issued, boots, at_build,
                   allocated_before, origin, wret>>

\* A new_session that counted the Session before load_last_ids had returned.
BootStoreAttr_counts(t, ok) ==
    /\ boot[t].pc = "attr"
    /\ IF ok
       THEN /\ last_attr_id' = load_last_attr_id(boot[t].tx.tx)
            /\ boot' = [boot EXCEPT ![t].pc = "ent"]
            /\ UNCHANGED n_sessions
       ELSE /\ boot' = [boot EXCEPT ![t] = Idle]
            /\ n_sessions' = n_sessions + 1
            /\ UNCHANGED last_attr_id
    /\ UNCHANGED <<store, last_ent_id, last_tx_id, ctxs,
                   ordinals, last_issued, prev_issued, boots, at_build,
                   allocated_before, origin, wret>>

\* Lines 66-67: self.last_attr_id.store(tx.load_last_attr_id()?.0).
BootStoreAttr(t, ok) ==
    /\ boot[t].pc = "attr"
    /\ IF ok
       THEN /\ last_attr_id' = load_last_attr_id(boot[t].tx.tx)
            /\ boot' = [boot EXCEPT ![t].pc = "ent"]
       ELSE /\ boot' = [boot EXCEPT ![t] = Idle]
            /\ UNCHANGED last_attr_id
    /\ UNCHANGED <<store, last_ent_id, last_tx_id, n_sessions, ctxs,
                   ordinals, last_issued, prev_issued, boots, at_build,
                   allocated_before, origin, wret>>

\* A new_session that ignored the Err of load_last_ids and went on to line 51.
BootStoreEnt_ignore_err(t, ok) ==
    /\ boot[t].pc = "ent"
    /\ IF ok
       THEN /\ last_ent_id' = load_last_entity_id(boot[t].tx.tx)
            /\ boot' = [boot EXCEPT ![t].pc = "inc"]
            /\ boots' = boots + 1
       ELSE /\ boot' = [boot EXCEPT ![t].pc = "inc"]
            /\ UNCHANGED <<last_ent_id, boots>>
    /\ UNCHANGED <<store, last_attr_id, last_tx_id, n_sessions, ctxs,
                   ordinals, last_issued, prev_issued, at_build,
                   allocated_before, origin, wret>>

\* Lines 68-70: self.last_ent_id.store(tx.load_last_entity_id()?.0); Ok(()).
BootStoreEnt(t, ok) ==
    /\ boot[t].pc = "ent"
    /\ IF ok
       THEN /\ last_ent_id' = load_last_entity_id(boot[t].tx.tx)
            /\ boot' = [boot EXCEPT ![t].pc = "inc"]
            /\ boots' = boots + 1
       ELSE /\ boot' = [boot EXCEPT ![t] = Idle]
            /\ UNCHANGED <<last_ent_id, boots>>
    /\ UNCHANGED <<store, last_attr_id, last_tx_id, n_sessions, ctxs,
                   ordinals, last_issued, prev_issued, at_build,
                   allocated_before, origin, wret>>

\* Lines 51-60: n_sessions.fetch_add(1); the Session carries old_count + 1.
NewSessionFinish(t) ==
    /\ boot[t].pc = "inc"
    /\ n_sessions' = n_sessions + 1
    /\ ordinals' = Append(ordinals, SessionId(n_sessions))
    /\ boot' = [boot EXCEPT ![t] = Idle]
    /\ UNCHANGED <<store, last_attr_id, last_ent_id, last_tx_id, ctxs,
                   last_issued, prev_issued, boots, at_build,
                   allocated_before, origin, wret>>

\* ---------------------------------------------- new_session on a Session
\* session_id # 0: no bootstrap, only lines 51-60.
NewSessionDerived(s) ==
    /\ s \in Sessions
    /\ n_sessions + Cardinality(InFlight) < MaxSessions
    /\ n_sessions' = n_sessions + 1
    /\ ordinals' = Append(ordinals, SessionId(n_sessions))
    /\ UNCHANGED <<store, last_attr_id, last_ent_id, last_tx_id, boot, ctxs,
                   last_issued, prev_issued, boots, at_build,
                   allocated_before, origin, wret>>

\* ------------------------------------------------------------- transact
\* What a caller passes as read_at: nothing, the last tx id the first store
\* held, or the id after it (beyond the last committed id until that
\* transaction commits, historical afterwards).
ReadAtInputs == {None, origin, origin + 1}

\* Every Session is held by one caller, which has one context open at a time:
\* there are never more open contexts than Sessions
\* (Transact_refresh: the faulty variant that stores the last tx id it loaded
\* into the shared counter, as load_last_ids does).
Transact_refresh(s, at, ok) ==
    /\ s \in Sessions
    /\ Cardinality(ctxs) < n_sessions
    /\ IF TransactOk(at, ok)
       THEN /\ ctxs' = ctxs \cup {transact(at)}
            /\ last_tx_id' = IF at = None THEN transact(at).r_tx_id
                                          ELSE last_tx_id
       ELSE UNCHANGED <<ctxs, last_tx_id>>
    /\ UNCHANGED <<store, last_attr_id, last_ent_id, n_sessions,
                   boot, ordinals, last_issued, prev_issued, boots,
                   at_build, allocated_before, origin, wret>>
Transact(s, at, ok) ==
    /\ s \in Sessions
    /\ Cardinality(ctxs) < n_sessions
    /\ IF TransactOk(at, ok)
       THEN ctxs' = ctxs \cup {transact(at)}
       ELSE UNCHANGED ctxs
    /\ UNCHANGED <<store, last_attr_id, last_ent_id, last_tx_id, n_sessions,
                   boot, ordinals, last_issued, prev_issued, boots,
                   at_build, allocated_before, origin, wret>>

\* -------------------------------------------------------- transact_write
\* Lines 89-100: one fetch_add on last_tx_id, then the context.
TransactWriteCall(s) ==
    /\ s \in Sessions
    /\ last_tx_id' = last_tx_id + 1
    /\ ctxs' = ctxs \cup {transact_write_ctx(CurTxId(last_tx_id))}
    /\ last_issued' = CurTxId(last_tx_id)
    /\ prev_issued' = Max({prev_issued, last_issued})
    /\ UNCHANGED <<store, last_attr_id, last_ent_id, n_sessions, boot,
                   ordinals, boots, at_build, allocated_before, origin>>

TransactWrite(s) ==
    /\ last_tx_id < origin + MaxAlloc
    /\ Cardinality(ctxs) < n_sessions
    /\ TransactWriteCall(s)
    /\ UNCHANGED wret

\* ------------------------------------- contexts end (commit spec-modelled)
\* A write context commits: its tx log row, keyed by w_tx_id, becomes durable,
\* and with it the high-water marks of the ids allocated through the context.
Commit(c) ==
    /\ c \in ctxs
    /\ c.w_tx_id # None
    /\ store' = [store EXCEPT !.tx_log = @ \cup {c.w_tx_id},
                              !.last_attr_id = Max({@, c.attr}),
                              !.last_ent_id = Max({@, c.ent})]
    /\ ctxs' = ctxs \ {c}
    /\ UNCHANGED <<last_attr_id, last_ent_id, last_tx_id, n_sessions, boot,
                   ordinals, last_issued, prev_issued, boots, at_build,
                   allocated_before, origin, wret>>

\* A context is dropped without committing: its snapshot is released.
Drop(c) ==
    /\ c \in ctxs
    /\ ctxs' = ctxs \ {c}
    /\ UNCHANGED <<store, last_attr_id, last_ent_id, last_tx_id, n_sessions,
                   boot, ordinals, last_issued, prev_issued, boots,
                   at_build, allocated_before, origin, wret>>

\* ---------------------------------------------------------------- restart
\* The process ends and Db::build runs again over the same store.
Restart ==
    /\ last_attr_id' = DefaultCounter
    /\ last_ent_id' = DefaultCounter
    /\ last_tx_id' = DefaultCounter
    /\ n_sessions' = DefaultCounter
    /\ boot' = [t \in Threads |-> Idle]
    /\ ctxs' = {}
    /\ ordinals' = <<>>
    /\ last_issued' = None
    /\ prev_issued' = None
    /\ boots' = 0
    /\ failed' = FALSE
    /\ retry' = [t \in Threads |-> FALSE]
    /\ recovered' = FALSE
    /\ call' = [t \in Threads |-> NoCall]
    /\ at_build' = store
    /\ allocated_before' = Max({allocated_before, prev_issued, last_issued})
    /\ alloc' = NoAlloc
    /\ found' = "none"
    /\ UNCHANGED <<store, origin, wret>>

\* The observer variables stay as they are.
Unobserved == UNCHANGED <<failed, retry, recovered, call, alloc, found>>

Next ==
    \/ \E t \in Threads : \E ok \in BOOLEAN :
          NewSessionBegin(t, ok) /\ Unobserved
    \/ \E t \in Threads : BootStoreTx(t) /\ Unobserved
    \/ \E t \in Threads : \E ok \in BOOLEAN :
          BootStoreAttr(t, ok) /\ Unobserved
    \/ \E t \in Threads : \E ok \in BOOLEAN :
          BootStoreEnt(t, ok) /\ Unobserved
    \/ \E t \in Threads : NewSessionFinish(t) /\ Unobserved
    \/ \E s \in Sessions : NewSessionDerived(s) /\ Unobserved
    \/ \E s \in Sessions : \E at \in ReadAtInputs : \E ok \in BOOLEAN :
          Transact(s, at, ok) /\ Unobserved
    \/ \E s \in Sessions : TransactWrite(s) /\ Unobserved
    \/ \E c \in ctxs : Commit(c) /\ Unobserved
    \/ \E c \in ctxs : Drop(c) /\ Unobserved

Spec == Init /\ [][Next]_vars

\* ------------------------------------------- concurrent transact_write
\* NWriters threads, each calling transact_write once on some Session of a
\* Database whose bootstrap has run, and nothing else running.
InitWriters ==
    /\ \E s \in InitStores : store = StoreOf(s[1], s[2], s[3])
    /\ last_attr_id = store.last_attr_id
    /\ last_ent_id = store.last_ent_id
    /\ last_tx_id = LastTxOf(store)
    /\ n_sessions \in 1..MaxSessions
    /\ boot = [t \in Threads |-> Idle]
    /\ ctxs = {}
    /\ ordinals = [i \in 1..n_sessions |-> i]
    /\ last_issued = None
    /\ prev_issued = None
    /\ boots = 1
    /\ failed = FALSE
    /\ retry = [t \in Threads |-> FALSE]
    /\ recovered = FALSE
    /\ call = [t \in Threads |-> NoCall]
    /\ at_build = store
    /\ allocated_before = 0
    /\ origin = LastTxOf(store)
    /\ wret = [w \in Writers |-> None]
    /\ alloc = NoAlloc
    /\ found = "none"

WriterCall(w, s) ==
    /\ wret[w] = None
    /\ TransactWriteCall(s)
    /\ Unobserved
    /\ wret' = [wret EXCEPT
                  ![w] = transact_write_ctx(CurTxId(last_tx_id)).w_tx_id]

NextWriters == \E w \in Writers : \E s \in Sessions : WriterCall(w, s)

SpecWriters == InitWriters /\ [][NextWriters]_vars

\* The same operations, and the process may restart.
NextRestart == Next \/ Restart

SpecRestart == Init /\ [][NextRestart]_vars

\* --------------------------------------- failed new_session calls observed
\* The same operations with the observer recording which new_session calls
\* on the root returned Err and which calls begun after that returned Ok.
\* Lines 47-48, 64: the call returns Err when transact(None) fails.
ObserveBegin(t, ok) ==
    /\ IF TransactOk(None, ok)
       THEN /\ retry' = [retry EXCEPT ![t] = failed]
            /\ UNCHANGED failed
       ELSE /\ failed' = TRUE
            /\ UNCHANGED retry
    /\ UNCHANGED <<recovered, call, alloc, found>>

\* Lines 66-69: the ? on a failed read returns Err from new_session.
ObserveLoad(t, ok) ==
    /\ IF ok
       THEN UNCHANGED <<failed, retry>>
       ELSE /\ failed' = TRUE
            /\ retry' = [retry EXCEPT ![t] = FALSE]
    /\ UNCHANGED <<recovered, call, alloc, found>>

\* Line 60: the call returns Ok(Session).
ObserveReturn(t) ==
    /\ retry' = [retry EXCEPT ![t] = FALSE]
    /\ recovered' = (recovered \/ retry[t])
    /\ UNCHANGED <<failed, call, alloc, found>>

NextObserved ==
    \/ \E t \in Threads : \E ok \in BOOLEAN :
          NewSessionBegin(t, ok) /\ ObserveBegin(t, ok)
    \/ \E t \in Threads : BootStoreTx(t) /\ Unobserved
    \/ \E t \in Threads : \E ok \in BOOLEAN :
          BootStoreAttr(t, ok) /\ ObserveLoad(t, ok)
    \/ \E t \in Threads : \E ok \in BOOLEAN :
          BootStoreEnt(t, ok) /\ ObserveLoad(t, ok)
    \/ \E t \in Threads : NewSessionFinish(t) /\ ObserveReturn(t)
    \/ \E s \in Sessions : NewSessionDerived(s) /\ Unobserved
    \/ \E s \in Sessions : \E at \in ReadAtInputs : \E ok \in BOOLEAN :
          Transact(s, at, ok) /\ Unobserved
    \/ \E s \in Sessions : TransactWrite(s) /\ Unobserved
    \/ \E c \in ctxs : Commit(c) /\ Unobserved
    \/ \E c \in ctxs : Drop(c) /\ Unobserved

SpecObserved == Init /\ [][NextObserved]_vars

\* ---------------------------------------------- new_session calls traced
\* The same operations with the observer recording, for each new_session
\* call on the root in progress, how it began and whether it has changed
\* a counter.
\* Lines 47-48, 64: load_last_ids begins.
TraceBegin(t, ok) ==
    /\ IF TransactOk(None, ok)
       THEN call' = [call EXCEPT ![t] = [again |-> boots >= 1, dirty |-> FALSE]]
       ELSE UNCHANGED call
    /\ UNCHANGED <<failed, retry, recovered, alloc, found>>

\* Lines 65, 67, 69: one store into a counter.
TraceStore(t) ==
    /\ call' = [call EXCEPT ![t].dirty =
                   @ \/ <<last_attr_id, last_ent_id, last_tx_id>>'
                          # <<last_attr_id, last_ent_id, last_tx_id>>]
    /\ UNCHANGED <<failed, retry, recovered, alloc, found>>

\* Lines 66-69: a store, or the ? returning Err from new_session.
TraceLoad(t, ok) ==
    IF ok
    THEN TraceStore(t)
    ELSE /\ call' = [call EXCEPT ![t] = NoCall]
         /\ UNCHANGED <<failed, retry, recovered, alloc, found>>

\* Line 60: the call returns Ok(Session).
TraceReturn(t) ==
    /\ call' = [call EXCEPT ![t] = NoCall]
    /\ UNCHANGED <<failed, retry, recovered, alloc, found>>

NextTraced ==
    \/ \E t \in Threads : \E ok \in BOOLEAN :
          NewSessionBegin(t, ok) /\ TraceBegin(t, ok)
    \/ \E t \in Threads : BootStoreTx(t) /\ TraceStore(t)
    \/ \E t \in Threads : \E ok \in BOOLEAN :
          BootStoreAttr(t, ok) /\ TraceLoad(t, ok)
    \/ \E t \in Threads : \E ok \in BOOLEAN :
          BootStoreEnt(t, ok) /\ TraceLoad(t, ok)
    \/ \E t \in Threads : NewSessionFinish(t) /\ TraceReturn(t)
    \/ \E s \in Sessions : NewSessionDerived(s) /\ Unobserved
    \/ \E s \in Sessions : \E at \in ReadAtInputs : \E ok \in BOOLEAN :
          Transact(s, at, ok) /\ Unobserved
    \/ \E s \in Sessions : TransactWrite(s) /\ Unobserved
    \/ \E c \in ctxs : Commit(c) /\ Unobserved
    \/ \E c \in ctxs : Drop(c) /\ Unobserved

SpecTraced == Init /\ [][NextTraced]_vars

\* ------------------------------------- id allocation (spec-modelled)
\* allocate-next-attribute-id and allocate-next-entity-id: an atomic
\* fetch-and-increment on the shared counter, returning the previous value
\* incremented by one, made through a write context, which keeps the highest
\* id of each kind it allocated for its commit.
NextId(fetched) == fetched + 1

AllocAttr(c) ==
    /\ c \in ctxs
    /\ c.w_tx_id # None
    /\ last_attr_id < at_build.last_attr_id + MaxAlloc
    /\ last_attr_id' = last_attr_id + 1
    /\ ctxs' = (ctxs \ {c})
                  \cup {[c EXCEPT !.attr = Max({@, NextId(last_attr_id)})]}
    /\ UNCHANGED <<store, last_ent_id, last_tx_id, n_sessions, boot,
                   ordinals, last_issued, prev_issued, boots, at_build,
                   allocated_before, origin, wret>>

AllocEnt(c) ==
    /\ c \in ctxs
    /\ c.w_tx_id # None
    /\ last_ent_id < at_build.last_ent_id + MaxAlloc
    /\ last_ent_id' = last_ent_id + 1
    /\ ctxs' = (ctxs \ {c})
                  \cup {[c EXCEPT !.ent = Max({@, NextId(last_ent_id)})]}
    /\ UNCHANGED <<store, last_attr_id, last_tx_id, n_sessions, boot,
                   ordinals, last_issued, prev_issued, boots, at_build,
                   allocated_before, origin, wret>>

\* The observer records the id an allocation of kind k returned.
RecordAlloc(k, id) ==
    /\ alloc' = [alloc EXCEPT ![k] = [last |-> id,
                                      prev |-> Max({@.prev, @.last})]]
    /\ UNCHANGED <<failed, retry, recovered, call, found>>

\* The operations of the Database together with id allocation.
NextIds ==
    \/ Next
    \/ \E c \in ctxs : AllocAttr(c) /\ RecordAlloc("attr", NextId(last_attr_id))
    \/ \E c \in ctxs : AllocEnt(c) /\ RecordAlloc("ent", NextId(last_ent_id))

SpecIds == Init /\ [][NextIds]_vars

\* Sessions at work: a Database whose bootstrap has run and whose Sessions
\* open contexts, allocate ids through them, commit and drop them.
NextSessions ==
    \/ \E s \in Sessions : \E at \in ReadAtInputs : \E ok \in BOOLEAN :
          Transact(s, at, ok) /\ Unobserved
    \/ \E s \in Sessions : TransactWrite(s) /\ Unobserved
    \/ \E c \in ctxs : AllocAttr(c) /\ Unobserved
    \/ \E c \in ctxs : AllocEnt(c) /\ Unobserved
    \/ \E c \in ctxs : Commit(c) /\ Unobserved
    \/ \E c \in ctxs : Drop(c) /\ Unobserved

SpecSessions == InitWriters /\ [][NextSessions]_vars

\* ---------------------------------------------------- timestamp lookup
\* Timestamps a caller passes (ts: i64).
Timestamps == {-1, 0, 1}

\* Db::find_tx_before_timestamp_millis (lines 107-109): the body is todo!(),
\* which panics whatever ts is; the call returns neither Ok nor Err.
find_tx_before_timestamp_millis(ts) == "panic"

FindTxBeforeTimestampMillis(ts) ==
    /\ found' = find_tx_before_timestamp_millis(ts)
    /\ UNCHANGED <<store, last_attr_id, last_ent_id, last_tx_id, n_sessions,
                   boot, ctxs, ordinals, last_issued, prev_issued, boots,
                   at_build, allocated_before, origin, wret,
                   failed, retry, recovered, call, alloc>>

\* The operations of the Database together with the timestamp lookup.
NextLookup ==
    \/ Next
    \/ \E ts \in Timestamps : FindTxBeforeTimestampMillis(ts)

SpecLookup == Init /\ [][NextLookup]_vars

\* ------------------------------------------------------------ properties
\* What a context can observe: the committed transactions its storage
\* transaction reads.
Observes(c) == TxRead(c.tx).tx_log

ReadNow(c) == c.op = "transact" /\ c.at = None

ReadAt(c) == c.op = "transact" /\ c.at # None

\* C1: every transact_write returns a w_tx_id strictly greater than every
\* transaction id returned by an earlier transact_write on the Database.
C1_WriteIdsStrictlyIncrease ==
    last_issued # None => last_issued > prev_issued

\* C2: the ids returned to the writer threads that have called
\* transact_write are pairwise distinct and are exactly the consecutive
\* integers following the counter value before the calls.
C2_ConcurrentWritesConsecutive ==
    LET done == {w \in Writers : wret[w] # None}
    IN /\ \A v, w \in done : v # w => wret[v] # wret[w]
       /\ {wret[w] : w \in done} = (origin + 1)..(origin + Cardinality(done))

C2_Witness == \A w \in Writers : wret[w] # None

\* C3: the ordinals of the Sessions returned so far are 1, 2, ..., N in the
\* order of return, N being the number of successful new_session calls and
\* the value of the session counter.
C3_OrdinalsConsecutive ==
    /\ ordinals = [i \in 1..Len(ordinals) |-> i]
    /\ n_sessions = Len(ordinals)

C3_Witness == Len(ordinals) = MaxSessions /\ boots = 1

\* C4: once the first new_session has returned and until the first
\* transact_write, the three counters hold the high-water marks of the store
\* the Database was built over; the first transact_write returns the stored
\* last tx id plus one.
C4_BootstrapSeedsCounters ==
    /\ (Len(ordinals) >= 1 /\ last_issued = None) =>
          /\ last_attr_id = at_build.last_attr_id
          /\ last_ent_id = at_build.last_ent_id
          /\ last_tx_id = LastTxOf(at_build)
    /\ (last_issued # None /\ prev_issued = None) =>
          last_issued = LastTxOf(at_build) + 1

C4_Witness ==
    /\ at_build = StoreOf(41, 7, 100)
    /\ last_attr_id = 41
    /\ last_ent_id = 7
    /\ last_tx_id = 101
    /\ last_issued = 101
    /\ prev_issued = None

\* C5: no step changes what an open transact(None) context observes, so a
\* commit that lands after its snapshot stays invisible to it; a context
\* transact(None) opens observes every commit made before and has the last
\* of them as r_tx_id.
C5_SnapshotIsolation ==
    [][/\ \A c \in ctxs \cap ctxs' :
             ReadNow(c) => Observes(c)' = Observes(c)
       /\ \A c \in ctxs' \ ctxs :
             ReadNow(c) => /\ Observes(c)' = store.tx_log
                           /\ c.r_tx_id = LastTxOf(store)]_vars

C5_Witness ==
    \E a, b \in ctxs :
        /\ ReadNow(a) /\ ReadNow(b)
        /\ b.r_tx_id = a.r_tx_id + 1
        /\ b.r_tx_id \in store.tx_log
        /\ b.r_tx_id \notin Observes(a)
        /\ b.r_tx_id \in Observes(b)

\* C6: bootstrap (load_last_ids) completes at most once on a Database.
C6_BootstrapRunsOnce == boots <= 1

C8_ReadNowUsesStoredTxId ==
    \A c \in ctxs \cup {boot[t].tx : t \in InFlight} :
        ReadNow(c) => /\ c.w_tx_id = None
                      /\ c.r_tx_id = load_last_tx_id(c.tx)

C8_Witness ==
    \E c \in ctxs : ReadNow(c) /\ c.r_tx_id < last_tx_id

\* C9: a context opened by transact(Some(T)) has r_tx_id = T, no w_tx_id,
\* and was made without reading the last tx id from storage.
C9_ReadAtUsesArgument ==
    \A c \in ctxs :
        ReadAt(c) => /\ c.r_tx_id = c.at
                     /\ c.w_tx_id = None
                     /\ ~c.loaded

C9_Witness ==
    \E a, b \in ctxs :
        /\ ReadAt(a) /\ ReadAt(b)
        /\ a.r_tx_id = b.r_tx_id
        /\ load_last_tx_id(a.tx) < load_last_tx_id(b.tx)

\* C10: transact(Some(T)) returns no context when T is greater than the
\* last committed transaction id.
C10_FutureReadAtFails ==
    \A c \in ctxs : ReadAt(c) => c.at <= load_last_tx_id(c.tx)

\* A step in which thread t's new_session call returns Err out of
\* load_last_ids (lines 66-69); a call failing in transact(None) changes
\* nothing but the observer.
ReturnsErr(t) == boot[t].pc \in {"attr", "ent"} /\ boot'[t].pc = "idle"

\* A step in which thread t's new_session call returns Ok(Session).
ReturnsOk(t) == boot[t].pc = "inc" /\ boot'[t].pc = "idle"

\* C11: a new_session call on the root that fails in bootstrap returns no
\* Session and leaves the session counter as it was; after it the Database
\* is usable: a new call can begin, and a call begun after the failure that
\* reads storage returns the next unused ordinal, the counters having been
\* seeded by its load_last_ids.
C11_FailedNewSessionRetryable ==
    /\ [](failed =>
            \A t \in Threads :
                (boot[t].pc = "idle"
                 /\ n_sessions + Cardinality(InFlight) < MaxSessions)
                => ENABLED (NewSessionBegin(t, TRUE) /\ ObserveBegin(t, TRUE)))
    /\ [][/\ ((~failed /\ failed') \/ \E t \in Threads : ReturnsErr(t))
              => (n_sessions' = n_sessions /\ ordinals' = ordinals)
           /\ \A t \in Threads :
                (ReturnsOk(t) /\ retry[t])
                => /\ boots >= 1
                   /\ SessionId(n_sessions) \notin Range(ordinals)
                   /\ ordinals' = Append(ordinals, n_sessions + 1)
                   /\ n_sessions' = n_sessions + 1]_vars

\* A call begun after a failed one has returned a Session.
C11_Witness == failed /\ recovered /\ Len(ordinals) >= 1

\* A step in which thread t's load_last_ids returns Ok (line 70).
LoadLastIdsOk(t) == boot[t].pc = "ent" /\ boot'[t].pc = "inc"

\* C12: a load_last_ids run begun after an earlier run had returned Ok
\* completes without having changed the value of any of the three counters.
C12_RedundantBootstrapKeepsCounters ==
    [][\A t \in Threads :
          (call[t].again /\ LoadLastIdsOk(t)) => ~call'[t].dirty]_vars

\* C13: for attribute ids and for entity ids, every allocation returns an id
\* strictly greater than every id of that kind allocated before it on this
\* Database (so no two allocations of a kind return the same id).
C13_AllocatedIdsStrictlyIncrease ==
    \A k \in {"attr", "ent"} :
        alloc[k].last # None => alloc[k].last > alloc[k].prev

\* C14: every call of find_tx_before_timestamp_millis ends by returning an
\* error to its caller.
C14_LookupReturnsErr == found \in {"none", "Err"}

\* C15: every transact_write call is one step that adds exactly 1 to the
\* transaction counter and returns a context whose r_tx_id and w_tx_id both
\* equal the counter value that step read plus 1.
C15_TransactWriteIncrementsByOne ==
    [][\A s \in Sessions :
          TransactWrite(s)
          => /\ last_tx_id' = last_tx_id + 1
             /\ last_issued' = last_tx_id + 1
             /\ \E c \in ctxs' :
                   /\ c.op = "transact_write"
                   /\ c.w_tx_id = last_tx_id + 1
                   /\ c.r_tx_id = last_tx_id + 1
             /\ \A c \in ctxs' \ ctxs :
                   /\ c.op = "transact_write"
                   /\ c.w_tx_id = last_tx_id + 1
                   /\ c.r_tx_id = last_tx_id + 1]_vars

\* A transact_write has just returned: the counter holds the id it issued,
\* and the context it returned carries that id as r_tx_id and as w_tx_id.
C15_Witness ==
    /\ last_issued # None
    /\ last_tx_id = last_issued
    /\ \E c \in ctxs :
          c.op = "transact_write" /\ c.w_tx_id = last_issued
          /\ c.r_tx_id = last_issued

\* C16: a transact_write call that begins after another call on the same
\* Database has returned, through the same or another Session and whatever
\* ran in between, returns a w_tx_id strictly greater than that call's.
C16_LaterWriteGetsGreaterId ==
    [][\A s \in Sessions :
          (TransactWrite(s) /\ last_issued # None)
          => last_issued < last_issued']_vars

\* C17: transact_write changes the transaction counter and none of the
\* attribute, entity and session counters; transact, with or without
\* read_at and whether or not it fails, changes none of the four counters,
\* and so does every step that adds a read context; an attribute-id or
\* entity-id allocation leaves the transaction counter as it is.
C17_CounterFrame ==
    [][/\ \A s \in Sessions :
            TransactWrite(s)
            => /\ last_tx_id' # last_tx_id
               /\ UNCHANGED <<last_attr_id, last_ent_id, n_sessions>>
       /\ \A s \in Sessions : \A at \in ReadAtInputs : \A ok \in BOOLEAN :
            Transact(s, at, ok)
            => UNCHANGED <<last_attr_id, last_ent_id, last_tx_id, n_sessions>>
       /\ (\E c \in ctxs' \ ctxs : c.op = "transact")
            => UNCHANGED <<last_attr_id, last_ent_id, last_tx_id, n_sessions>>
       /\ \A c \in ctxs :
            (AllocAttr(c) \/ AllocEnt(c))
            => /\ UNCHANGED <<last_tx_id, n_sessions>>
               /\ <<last_attr_id, last_ent_id>>' # <<last_attr_id, last_ent_id>>
      ]_vars

\* Write contexts are open, ids of both kinds have been allocated through
\* them, a transact_write has returned and a read context is open.
C17_Witness ==
    /\ last_attr_id > at_build.last_attr_id
    /\ last_ent_id > at_build.last_ent_id
    /\ last_issued # None
    /\ last_tx_id = last_issued
    /\ \E c \in ctxs : c.op = "transact"

\* C18: once a load_last_ids run has returned Ok, the in-memory transaction
\* counter is never below the last committed transaction id in storage.
C18_CounterAtLeastCommitted == boots >= 1 => last_tx_id >= LastTxOf(store)

\* C19: a Session exists, and a context is open, only after a load_last_ids
\* run of the Database has returned Ok, so every transact and transact_write
\* made through a Session comes after all three counters were stored from
\* storage; new_session on a derived Session runs no load_last_ids: it
\* starts no run, completes none and stores into none of the three counters.
C19_SessionsAfterBootstrap ==
    [][/\ (Len(ordinals') >= 1 \/ n_sessions' >= 1 \/ ctxs' # {})
            => boots' >= 1
       /\ \/ boots >= 1
          \/ \A s \in Sessions :
                /\ ~TransactWrite(s)
                /\ \A at \in ReadAtInputs : \A ok \in BOOLEAN :
                      ~Transact(s, at, ok)
       /\ \A s \in Sessions :
            NewSessionDerived(s)
            => UNCHANGED <<boot, boots, last_attr_id, last_ent_id, last_tx_id>>
      ]_vars

\* Two Sessions exist after a single load_last_ids run, so one of them came
\* from new_session on a derived Session, and contexts are open.
C19_Witness ==
    /\ Len(ordinals) >= 2
    /\ boots = 1
    /\ \E c \in ctxs : c.op = "transact"
    /\ \E c \in ctxs : c.op = "transact_write"

\* C20: a new_session call that returns Err out of load_last_ids has changed
\* the value of none of the three in-memory id counters.
C20_FailedBootstrapKeepsCounters ==
    [][\A t \in Threads : ReturnsErr(t) => ~call[t].dirty]_vars
=========================================================================
